---- MODULE Spec2Model ----
(***************************************************************************)
(* Graph construction of poem/core/models.py.                             *)
(*                                                                         *)
(* A tensor is a symbolic term: the operation that produced it, the name  *)
(* scope it was built under, an integer attribute (axis, index, count),   *)
(* its operand tensors and its static shape.  Building a graph changes a  *)
(* context: the variable store (names and shapes) and the ordered list of *)
(* operations added to the graph.  Floats are scaled integers:            *)
(* dropout_rate is in tenths, weight_max_norm in units.                   *)
(***************************************************************************)
EXTENDS Integers, Sequences, FiniteSets, TLC

VARIABLES pc, call, store, graph, ret_status, ret_msg, base_net, outputs,
          activations, embedder_fn, pending, sub_output_list,
          sub_activation_list

vars == <<pc, call, store, graph, ret_status, ret_msg, base_net, outputs,
          activations, embedder_fn, pending, sub_output_list,
          sub_activation_list>>

-----------------------------------------------------------------------------
(* Bounds of the explored inputs. *)
MaxBlocks == 2
MaxFcs == 2
MaxComponents == 2
MaxInstances == 2
MaxEmbeddingSize == 2
MaxSamples == 1
BatchSize == 2
FeatureDim == 3
HiddenNodes == 4
BottleneckNodes == 3
ClipNorm == 2
DropoutTenths == 5

(* Defaults written in the source. *)
DefaultNumHiddenNodes == 1024
DefaultWeightMaxNorm == 0
DefaultDropoutRate == 0
DefaultNumFcsPerBlock == 2
DefaultNumFcBlocks == 2
DefaultNumBottleneckNodes == 0

(* Constants of poem/core/common.py. *)
EMBEDDING_TYPE_POINT == "POINT"
EMBEDDING_TYPE_GAUSSIAN == "GAUSSIAN"
KEY_EMBEDDING_MEANS == "unnormalized_embeddings"
KEY_EMBEDDING_STDDEVS == "embedding_stddevs"
KEY_EMBEDDING_SAMPLES == "unnormalized_embedding_samples"

-----------------------------------------------------------------------------
(* Python values. *)

EmptyKwargs == [k \in {} |-> 0]

\* kwargs.get(key, default)
KwGet(kwargs, key, default) ==
  IF key \in DOMAIN kwargs THEN kwargs[key] ELSE default

\* the keyword arguments left after a function binds its named parameters
Without(kwargs, keys) == [k \in (DOMAIN kwargs) \ keys |-> kwargs[k]]

\* '%d' % n for n >= 0
Digit(n) == <<"0", "1", "2", "3", "4", "5", "6", "7", "8", "9">>[n + 1]

RECURSIVE FormatInt(_)
FormatInt(n) == IF n < 10 THEN Digit(n) ELSE FormatInt(n \div 10) \o Digit(n % 10)

\* A dict is its items in insertion order.
EmptyDict == <<>>

DictKeys(d) == {d[i].key : i \in 1..Len(d)}

DictGet(d, key) == d[CHOOSE i \in 1..Len(d) : d[i].key = key].val

\* d[key] = val
DictSet(d, key, val) ==
  IF key \in DictKeys(d)
    THEN [i \in 1..Len(d) |-> IF d[i].key = key THEN [key |-> key, val |-> val] ELSE d[i]]
    ELSE Append(d, [key |-> key, val |-> val])

\* Statement order: Then(value, LAMBDA v : rest) is rest with v assigned the
\* value, which is computed once, before the statements of rest run.
Then(value, Rest(_)) == CHOOSE r \in {Rest(v) : v \in {value}} : TRUE

\* np.prod(output_size) of a list of sizes
RECURSIVE Prod(_)
Prod(sizes) == IF sizes = <<>> THEN 1 ELSE Head(sizes) * Prod(Tail(sizes))

-----------------------------------------------------------------------------
(* Tensors and the graph context. *)

Tensor(op, name, attr, args, shape) ==
  [op |-> op, name |-> name, attr |-> attr, args |-> args, shape |-> shape]

EmptyContext == [vars |-> {}, ops |-> <<>>]

AddOp(ctx, op, name) == [ctx EXCEPT !.ops = Append(@, [op |-> op, name |-> name])]

LastDim(shape) == shape[Len(shape)]

ReplaceLast(shape, n) == [shape EXCEPT ![Len(shape)] = n]

\* a store without reuse: a second request for a name makes a second variable
GetVariableNoReuse(ctx, name, shape) ==
  IF \E v \in ctx.vars : v.name = name
    THEN [ctx EXCEPT !.vars = @ \cup {[name |-> name \o "_1", shape |-> shape]}]
    ELSE [ctx EXCEPT !.vars = @ \cup {[name |-> name, shape |-> shape]}]

\* tf.get_variable under a scope opened with reuse=tf.AUTO_REUSE: the
\* variable of that name when the store has one, a new one otherwise.
GetVariable(ctx, name, shape) ==
  IF \E v \in ctx.vars : v.name = name
    THEN ctx
    ELSE [ctx EXCEPT !.vars = @ \cup {[name |-> name, shape |-> shape]}]

VariableTensor(ctx, name) ==
  LET v == CHOOSE v \in ctx.vars : v.name = name
  IN  Tensor("variable", name, 0, <<>>, v.shape)

\* clipping that is on at the default 0.0
ClipsWeightsNonNegative(weight_max_norm) == weight_max_norm >= 0

\* weight_max_norm > 0.0
ClipsWeights(weight_max_norm) == weight_max_norm > 0

linear(ctx, input_features, output_size, weight_max_norm, name) ==
  LET clip == ClipsWeights(weight_max_norm)
      oshape == ReplaceLast(input_features.shape, output_size)
      Weights(w0) ==
        IF clip THEN Tensor("clip_by_norm", name, weight_max_norm, <<w0>>, w0.shape)
        ELSE w0
  IN  Then(GetVariable(ctx, name \o "/weight",
                       <<LastDim(input_features.shape), output_size>>),
        LAMBDA c1 : Then(Weights(VariableTensor(c1, name \o "/weight")),
          LAMBDA weights : Then(GetVariable(
                                  IF clip THEN AddOp(c1, "clip_by_norm", name) ELSE c1,
                                  name \o "/bias", <<output_size>>),
            LAMBDA c3 :
              [t |-> Tensor("add", name, 0,
                            <<Tensor("matmul", name, 0, <<input_features, weights>>,
                                     oshape),
                              VariableTensor(c3, name \o "/bias")>>, oshape),
               ctx |-> AddOp(AddOp(c3, "matmul", name), "add", name)])))

\* tf.layers.batch_normalization(..., reuse=tf.AUTO_REUSE)
BatchNormVariables == <<"gamma", "beta", "moving_mean", "moving_variance">>

RECURSIVE BatchNormStore(_, _, _, _)
BatchNormStore(ctx, name, dim, i) ==
  IF i > Len(BatchNormVariables) THEN ctx
  ELSE BatchNormStore(GetVariable(ctx, name \o "/" \o BatchNormVariables[i], <<dim>>),
                      name, dim, i + 1)

batch_normalization(ctx, net, is_training, name) ==
  [t |-> Tensor("batch_norm", name, IF is_training THEN 1 ELSE 0, <<net>>, net.shape),
   ctx |-> AddOp(BatchNormStore(ctx, name, LastDim(net.shape), 1), "batch_norm", name)]

\* dropout that ignores is_training
AddsDropoutAlways(is_training, dropout_rate) == dropout_rate > 0

\* is_training and dropout_rate > 0.0
AddsDropout(is_training, dropout_rate) == is_training /\ dropout_rate > 0

fully_connected(ctx, input_features, is_training, name, kwargs) ==
  LET dropout_rate == KwGet(kwargs, "dropout_rate", DefaultDropoutRate)
      BatchNorm(l) ==
        IF KwGet(kwargs, "use_batch_norm", TRUE)
          THEN batch_normalization(l.ctx, l.t, is_training, name \o "/BatchNorm")
          ELSE l
      Relu(b) ==
        [t |-> Tensor("relu", name \o "/Relu", 0, <<b.t>>, b.t.shape),
         ctx |-> AddOp(b.ctx, "relu", name \o "/Relu")]
      Dropout(r) ==
        IF AddsDropout(is_training, dropout_rate)
          THEN [t |-> Tensor("dropout", name \o "/Dropout", dropout_rate, <<r.t>>,
                             r.t.shape),
                ctx |-> AddOp(r.ctx, "dropout", name \o "/Dropout")]
          ELSE r
  IN  Then(linear(ctx, input_features,
                  KwGet(kwargs, "num_hidden_nodes", DefaultNumHiddenNodes),
                  KwGet(kwargs, "weight_max_norm", DefaultWeightMaxNorm),
                  name \o "/Linear"),
        LAMBDA l : Then(BatchNorm(l),
          LAMBDA b : Then(Relu(b), LAMBDA r : Dropout(r))))

\* for i in range(num_fcs_per_block): net = fully_connected(net, ...)
RECURSIVE FcLoop(_, _, _, _, _, _)
FcLoop(ctx, net, is_training, name, kwargs, i) ==
  IF i >= KwGet(kwargs, "num_fcs_per_block", DefaultNumFcsPerBlock)
    THEN [t |-> net, ctx |-> ctx]
    ELSE Then(fully_connected(ctx, net, is_training,
                              name \o "/FC_" \o FormatInt(i), kwargs),
              LAMBDA f : FcLoop(f.ctx, f.t, is_training, name, kwargs, i + 1))

\* a block that adds its result to itself instead of to its input
ResidualTwice(net, input_features, name) ==
  Tensor("add", name, 0, <<net, net>>, net.shape)

\* net += input_features
Residual(net, input_features, name) ==
  Tensor("add", name, 0, <<net, input_features>>, net.shape)

fully_connected_block(ctx, input_features, is_training, name, kwargs) ==
  Then(FcLoop(ctx, input_features, is_training, name, kwargs, 0),
       LAMBDA f : [t |-> Residual(f.t, input_features, name),
                   ctx |-> AddOp(f.ctx, "add", name)])

\* for i in range(num_fc_blocks): net = fully_connected_block(net, ...)
RECURSIVE BlockLoop(_, _, _, _, _, _)
BlockLoop(ctx, net, is_training, name, kwargs, i) ==
  IF i >= KwGet(kwargs, "num_fc_blocks", DefaultNumFcBlocks)
    THEN [t |-> net, ctx |-> ctx]
    ELSE Then(fully_connected_block(ctx, net, is_training,
                  name \o "/FullyConnectedBlock_" \o FormatInt(i), kwargs),
              LAMBDA b : BlockLoop(b.ctx, b.t, is_training, name, kwargs, i + 1))

simple_base(ctx, input_features, is_training, name, kwargs) ==
  Then(fully_connected(ctx, input_features, is_training,
                       name \o "/InputFC", kwargs),
       LAMBDA f : BlockLoop(f.ctx, f.t, is_training, name, kwargs, 0))

-----------------------------------------------------------------------------
(* simple_model *)

\* An output size is an integer or a list of integers; is_int tells which.
IntSize(n) == [is_int |-> TRUE, dims |-> <<n>>]
ListSize(dims) == [is_int |-> FALSE, dims |-> dims]

\* data_utils.recursively_expand_dims followed by
\* data_utils.reshape_by_last_dims: [..., prod] becomes [...] + output_size
reshape_by_last_dims(ctx, t, name, last_dim_shape) ==
  [t |-> Tensor("reshape", name, Len(last_dim_shape), <<t>>,
                SubSeq(t.shape, 1, Len(t.shape) - 1) \o last_dim_shape),
   ctx |-> AddOp(ctx, "reshape", name)]

\* num_bottleneck_nodes > 0
AddsBottleneck(num_bottleneck_nodes) == num_bottleneck_nodes > 0

\* heads that bypass the bottleneck
HeadInputBase(base, bottleneck, has_bottleneck) == base

\* the input of every output head
HeadInput(base, bottleneck, has_bottleneck) ==
  IF has_bottleneck THEN bottleneck ELSE base

\* for output_name, output_size in output_sizes.items(): ...
RECURSIVE OutputLoop(_, _, _, _, _, _, _)
OutputLoop(ctx, net, output_sizes, name, kwargs, i, outs) ==
  IF i > Len(output_sizes) THEN [outputs |-> outs, ctx |-> ctx]
  ELSE LET output_name == output_sizes[i].key
           output_size == output_sizes[i].val.dims
           scope == name \o "/OutputLogits/" \o output_name
           Reshaped(l) ==
             IF Len(output_size) > 1
               THEN reshape_by_last_dims(l.ctx, l.t, scope, output_size)
               ELSE l
       IN  Then(linear(ctx, net, Prod(output_size),
                       KwGet(kwargs, "weight_max_norm", DefaultWeightMaxNorm),
                       scope),
             LAMBDA l : Then(Reshaped(l), LAMBDA h : OutputLoop(h.ctx, net, output_sizes, name, kwargs,
                                         i + 1, DictSet(outs, output_name, h.t))))

simple_model(ctx, input_features, output_sizes, is_training, all_kwargs) ==
  LET name == KwGet(all_kwargs, "name", "SimpleModel")
      num_bottleneck_nodes ==
        KwGet(all_kwargs, "num_bottleneck_nodes", DefaultNumBottleneckNodes)
      kwargs == Without(all_kwargs, {"name", "num_bottleneck_nodes"})
      has == AddsBottleneck(num_bottleneck_nodes)
      Bottleneck(b) ==
        IF has
          THEN linear(b.ctx, b.t, num_bottleneck_nodes,
                      KwGet(kwargs, "weight_max_norm", DefaultWeightMaxNorm),
                      name \o "/BottleneckLogits")
          ELSE b
      Activations(b, n) ==
        LET acts0 == DictSet(EmptyDict, "base_activations", b.t)
        IN  IF has THEN DictSet(acts0, "bottleneck_activations", n.t) ELSE acts0
  IN  Then(simple_base(ctx, input_features, is_training, name, kwargs),
        LAMBDA b : Then(Bottleneck(b),
          LAMBDA n : Then(OutputLoop(n.ctx, HeadInput(b.t, n.t, has), output_sizes,
                                     name, kwargs, 1, EmptyDict),
            LAMBDA o : [outputs |-> o.outputs, activations |-> Activations(b, n),
                        ctx |-> o.ctx])))

-----------------------------------------------------------------------------
(* Embedders *)

\* _add_prefix = lambda key, c: 'C%d/' % c + key
add_prefix(key, c) == "C" \o FormatInt(c) \o "/" \o key

\* every slice read from component 0
ComponentKeyFirst(key, c) == add_prefix(key, 0)

\* the key of component c's entry among the per-component tensors
ComponentKey(key, c) == add_prefix(key, c)

\* [component_outputs[_add_prefix(key, c)] for c in range(n)]
ComponentList(component_outputs, key, n) ==
  [i \in 1..n |-> DictGet(component_outputs, ComponentKey(key, i - 1))]

\* 1-based position of a new axis in a shape of rank Len(shape) + 1
AxisPosition(shape, axis) ==
  IF axis < 0 THEN axis + Len(shape) + 2 ELSE axis + 1

\* tf.stack(values, axis): reads values[0], so an empty list raises IndexError
CanStack(values) == Len(values) > 0

tf_stack(values, axis) ==
  LET s == values[1].shape
      p == AxisPosition(s, axis)
  IN  Tensor("stack", "stack", axis, values,
             SubSeq(s, 1, p - 1) \o <<Len(values)>> \o SubSeq(s, p, Len(s)))

\* tf.unstack(t, axis=1) of a tensor whose dimension 1 is statically known
tf_unstack(t) ==
  [i \in 1..t.shape[2] |->
     Tensor("unstack", "unstack", i - 1, <<t>>,
            <<t.shape[1]>> \o SubSeq(t.shape, 3, Len(t.shape)))]

RECURSIVE PointSizes(_, _, _, _)
PointSizes(sizes, c, num_embedding_components, embedding_size) ==
  IF c >= num_embedding_components THEN sizes
  ELSE PointSizes(DictSet(sizes, add_prefix(KEY_EMBEDDING_MEANS, c),
                          IntSize(embedding_size)),
                  c + 1, num_embedding_components, embedding_size)

Raised(error, ctx) ==
  [status |-> error, outputs |-> EmptyDict, activations |-> EmptyDict, ctx |-> ctx]

Returned(outs, acts, ctx) ==
  [status |-> "ok", outputs |-> outs, activations |-> acts, ctx |-> ctx]

simple_point_embedder(ctx, input_features, num_embedding_components, embedding_size, is_training, kwargs) ==
  LET output_sizes == PointSizes(EmptyDict, 0, num_embedding_components,
                                 embedding_size)
      Outputs(m, means) ==
        IF ~CanStack(means) THEN Raised("IndexError", m.ctx)
        ELSE Returned(DictSet(EmptyDict, KEY_EMBEDDING_MEANS, tf_stack(means, -2)),
                      m.activations, AddOp(m.ctx, "stack", KEY_EMBEDDING_MEANS))
  IN  Then(simple_model(ctx, input_features, output_sizes, is_training, kwargs),
        LAMBDA m : Then(ComponentList(m.outputs, KEY_EMBEDDING_MEANS,
                                      num_embedding_components),
          LAMBDA means : Outputs(m, means)))

RECURSIVE GaussianSizes(_, _, _, _)
GaussianSizes(sizes, c, num_embedding_components, embedding_size) ==
  IF c >= num_embedding_components THEN sizes
  ELSE GaussianSizes(
         DictSet(DictSet(sizes, add_prefix(KEY_EMBEDDING_MEANS, c),
                         IntSize(embedding_size)),
                 add_prefix(KEY_EMBEDDING_STDDEVS, c), IntSize(embedding_size)),
         c + 1, num_embedding_components, embedding_size)

\* sampling that is on at num_embedding_samples = 0
DrawsSamplesNonNegative(num_embedding_samples) == num_embedding_samples >= 0

\* num_embedding_samples > 0
DrawsSamples(num_embedding_samples) == num_embedding_samples > 0

\* data_utils.sample_gaussians: [..., dim] to [..., num_samples, dim]
sample_gaussians(means, stddevs, num_samples, name) ==
  Tensor("sample_gaussians", name, num_samples, <<means, stddevs>>,
         SubSeq(means.shape, 1, Len(means.shape) - 1)
           \o <<num_samples, LastDim(means.shape)>>)

\* tf.nn.elu(x) + 1.0
Stddev(raw, name) ==
  Tensor("add_one", name, 1, <<Tensor("elu", name, 0, <<raw>>, raw.shape)>>, raw.shape)

\* the component whose means and stddevs component c's samples are drawn from
SampleSource(c) == c

\* for c in range(num_embedding_components): stddevs and samples
RECURSIVE ComponentLoop(_, _, _, _, _)
ComponentLoop(ctx, component_outputs, c, num_embedding_components, num_embedding_samples) ==
  IF c >= num_embedding_components
    THEN [outputs |-> component_outputs, ctx |-> ctx]
  ELSE LET skey == add_prefix(KEY_EMBEDDING_STDDEVS, c)
           c1 == AddOp(AddOp(ctx, "elu", skey), "add_one", skey)
           draws == DrawsSamples(num_embedding_samples)
           zkey == add_prefix(KEY_EMBEDDING_SAMPLES, c)
           WithSamples(o1) ==
             IF draws
               THEN DictSet(o1, zkey,
                      sample_gaussians(
                        DictGet(o1, add_prefix(KEY_EMBEDDING_MEANS, SampleSource(c))),
                        DictGet(o1, add_prefix(KEY_EMBEDDING_STDDEVS, SampleSource(c))),
                        num_embedding_samples, zkey))
               ELSE o1
           c2 == IF draws THEN AddOp(c1, "sample_gaussians", zkey) ELSE c1
       IN  Then([outputs |-> WithSamples(DictSet(component_outputs, skey,
                                Stddev(DictGet(component_outputs, skey), skey))),
                 ctx |-> c2],
                LAMBDA s : ComponentLoop(s.ctx, s.outputs, c + 1,
                                         num_embedding_components,
                                         num_embedding_samples))

simple_gaussian_embedder(ctx, input_features, num_embedding_components, embedding_size, num_embedding_samples, is_training, kwargs) ==
  LET output_sizes == GaussianSizes(EmptyDict, 0, num_embedding_components,
                                    embedding_size)
      Stacked(l, key, axis) ==
        tf_stack(ComponentList(l.outputs, key, num_embedding_components), axis)
      Outputs(m, l) ==
        IF ~CanStack(ComponentList(l.outputs, KEY_EMBEDDING_MEANS,
                                   num_embedding_components))
          THEN Raised("IndexError", l.ctx)
        ELSE Then([outputs |->
                     DictSet(DictSet(EmptyDict, KEY_EMBEDDING_MEANS,
                                     Stacked(l, KEY_EMBEDDING_MEANS, -2)),
                             KEY_EMBEDDING_STDDEVS,
                             Stacked(l, KEY_EMBEDDING_STDDEVS, -2)),
                   ctx |-> AddOp(AddOp(l.ctx, "stack", KEY_EMBEDDING_MEANS),
                                 "stack", KEY_EMBEDDING_STDDEVS)],
               LAMBDA o :
                 IF DrawsSamples(num_embedding_samples)
                   THEN Returned(DictSet(o.outputs, KEY_EMBEDDING_SAMPLES,
                                         Stacked(l, KEY_EMBEDDING_SAMPLES, -3)),
                                 m.activations,
                                 AddOp(o.ctx, "stack", KEY_EMBEDDING_SAMPLES))
                   ELSE Returned(o.outputs, m.activations, o.ctx))
  IN  Then(simple_model(ctx, input_features, output_sizes, is_training, kwargs),
        LAMBDA m : Then(ComponentLoop(m.ctx, m.outputs, 0, num_embedding_components,
                                      num_embedding_samples),
          LAMBDA l : Outputs(m, l)))

-----------------------------------------------------------------------------
(* create_embedder and the call of the builder it returns *)

\* functools.partial(fn, num_embedding_components=..., embedding_size=...)
Partial(fn, num_embedding_components, embedding_size) ==
  [fn |-> fn, num_embedding_components |-> num_embedding_components,
   embedding_size |-> embedding_size]

NoEmbedder == Partial("", 0, 0)

\* both supported types bound to the point embedder
EmbedderForPointOnly(embedding_type) ==
  IF embedding_type \in {EMBEDDING_TYPE_POINT, EMBEDDING_TYPE_GAUSSIAN}
    THEN "simple_point_embedder"
    ELSE ""

\* the embedder each supported embedding type is bound to
EmbedderFor(embedding_type) ==
  IF embedding_type = EMBEDDING_TYPE_POINT THEN "simple_point_embedder"
  ELSE IF embedding_type = EMBEDDING_TYPE_GAUSSIAN THEN "simple_gaussian_embedder"
  ELSE ""

create_embedder(embedding_type, num_embedding_components, embedding_size) ==
  IF EmbedderFor(embedding_type) # ""
    THEN [status |-> "ok", msg |-> "",
          fn |-> Partial(EmbedderFor(embedding_type), num_embedding_components,
                         embedding_size)]
    ELSE [status |-> "ValueError", msg |-> "Unsupported embedding type",
          fn |-> NoEmbedder]

\* embedder_fn(input_features, **kwargs)
CallEmbedder(fn, ctx, input_features, kwargs) ==
  IF fn.fn = "simple_point_embedder"
    THEN simple_point_embedder(ctx, input_features, fn.num_embedding_components,
                               fn.embedding_size, kwargs["is_training"],
                               Without(kwargs, {"is_training"}))
    ELSE simple_gaussian_embedder(ctx, input_features, fn.num_embedding_components,
                                  fn.embedding_size, kwargs["num_embedding_samples"],
                                  kwargs["is_training"],
                                  Without(kwargs, {"is_training", "num_embedding_samples"}))

-----------------------------------------------------------------------------
(* Inputs *)

Opt(key, vals) == {EmptyKwargs} \cup {key :> v : v \in vals}

Req(key, vals) == {key :> v : v \in vals}

BaseKwargs ==
  {a @@ b @@ c @@ d @@ e @@ f :
     a \in Opt("dropout_rate", {0, DropoutTenths}),
     b \in Opt("weight_max_norm", {-1, 0, ClipNorm}),
     c \in Opt("num_fc_blocks", 0..MaxBlocks),
     d \in Opt("num_fcs_per_block", 0..MaxFcs),
     e \in Opt("num_hidden_nodes", {HiddenNodes}),
     f \in Opt("use_batch_norm", BOOLEAN)}

ModelKwargs ==
  {a @@ b @@ c @@ d @@ e :
     a \in Opt("dropout_rate", {0, DropoutTenths}),
     b \in Opt("weight_max_norm", {ClipNorm}),
     c \in Opt("num_fc_blocks", {0}),
     d \in Opt("num_bottleneck_nodes", {-1, 0, BottleneckNodes}),
     e \in Opt("name", {"M"})}

EmbedderKwargs ==
  {a @@ b @@ c @@ d :
     a \in Opt("dropout_rate", {DropoutTenths}),
     b \in Opt("weight_max_norm", {ClipNorm}),
     c \in Opt("num_fc_blocks", 0..(MaxBlocks - 1)),
     d \in Opt("num_bottleneck_nodes", {BottleneckNodes})}

EmbedKwargs ==
  {a @@ b @@ c @@ d @@ e :
     a \in Req("is_training", BOOLEAN),
     b \in Req("num_embedding_samples", 0..MaxSamples),
     c \in Opt("dropout_rate", {DropoutTenths}),
     d \in Opt("num_fc_blocks", 0..(MaxBlocks - 1)),
     e \in Opt("num_bottleneck_nodes", {BottleneckNodes})}

EmbeddingTypes == {EMBEDDING_TYPE_POINT, EMBEDDING_TYPE_GAUSSIAN, "GAUSSIAN_SCALAR_VAR"}

OutputSizes ==
  {EmptyDict,
   <<[key |-> "a", val |-> IntSize(MaxEmbeddingSize)]>>,
   <<[key |-> "a", val |-> IntSize(1)],
     [key |-> "b", val |-> ListSize(<<MaxComponents, MaxEmbeddingSize>>)]>>}

Input(shape) == Tensor("input", "input_features", 0, <<>>, shape)

\* [..., feature_dim]
FeatureShapes ==
  {<<BatchSize, FeatureDim>>, <<BatchSize, MaxInstances, FeatureDim>>}

\* ranks 0 to 4; rank 3 is [batch_size, num_instances, feature_dim]
EmbedShapes ==
  {<<>>, <<FeatureDim>>, <<BatchSize, FeatureDim>>, <<BatchSize, 1, 1, FeatureDim>>}
    \cup {<<BatchSize, n, FeatureDim>> : n \in 0..MaxInstances}

NoTensor == Tensor("none", "", 0, <<>>, <<>>)

Call(fn, input_features, embedding_type, num_embedding_components, embedding_size, num_embedding_samples, is_training, output_sizes, kwargs) ==
  [fn |-> fn, input_features |-> input_features,
   embedding_type |-> embedding_type,
   num_embedding_components |-> num_embedding_components,
   embedding_size |-> embedding_size,
   num_embedding_samples |-> num_embedding_samples,
   is_training |-> is_training, output_sizes |-> output_sizes,
   kwargs |-> kwargs]

NoCall == Call("", NoTensor, "", 0, 0, 0, FALSE, EmptyDict, EmptyKwargs)

-----------------------------------------------------------------------------
(* The program: one call on a fresh graph *)

Init ==
  /\ pc = "idle"
  /\ call = NoCall
  /\ store = {}
  /\ graph = <<>>
  /\ ret_status = "none"
  /\ ret_msg = ""
  /\ base_net = NoTensor
  /\ outputs = EmptyDict
  /\ activations = EmptyDict
  /\ embedder_fn = NoEmbedder
  /\ pending = <<>>
  /\ sub_output_list = <<>>
  /\ sub_activation_list = <<>>

Context == [vars |-> store, ops |-> graph]

EmbedIdle == UNCHANGED <<embedder_fn, pending, sub_output_list, sub_activation_list>>

\* the caller receives (outputs, activations) or the exception
Finish(r) ==
  /\ pc' = "done"
  /\ store' = r.ctx.vars
  /\ graph' = r.ctx.ops
  /\ ret_status' = r.status
  /\ ret_msg' = ""
  /\ outputs' = r.outputs
  /\ activations' = r.activations

call_simple_base ==
  /\ pc = "idle"
  /\ \E shape \in FeatureShapes, is_training \in BOOLEAN, kwargs \in BaseKwargs :
       \E r \in {simple_base(Context, Input(shape), is_training, "SimpleModel", kwargs)} :
           /\ call' = Call("simple_base", Input(shape), "", 0, 0, 0, is_training,
                           EmptyDict, kwargs)
           /\ base_net' = r.t
           /\ Finish(Returned(EmptyDict, EmptyDict, r.ctx))
  /\ EmbedIdle

call_simple_model ==
  /\ pc = "idle"
  /\ \E output_sizes \in OutputSizes, is_training \in BOOLEAN, kwargs \in ModelKwargs :
       \E r \in {simple_model(Context, Input(<<BatchSize, FeatureDim>>),
                               output_sizes, is_training, kwargs)} :
           /\ call' = Call("simple_model", Input(<<BatchSize, FeatureDim>>), "",
                           0, 0, 0, is_training, output_sizes, kwargs)
           /\ Finish(Returned(r.outputs, r.activations, r.ctx))
  /\ UNCHANGED base_net
  /\ EmbedIdle

call_simple_point_embedder ==
  /\ pc = "idle"
  /\ \E shape \in FeatureShapes, is_training \in BOOLEAN, kwargs \in EmbedderKwargs,
        num_embedding_components \in 0..MaxComponents,
        embedding_size \in 1..MaxEmbeddingSize :
       /\ call' = Call("simple_point_embedder", Input(shape), "",
                       num_embedding_components, embedding_size, 0, is_training,
                       EmptyDict, kwargs)
       /\ \E r \in {simple_point_embedder(Context, Input(shape),
                        num_embedding_components, embedding_size, is_training,
                        kwargs)} : Finish(r)
  /\ UNCHANGED base_net
  /\ EmbedIdle

call_simple_gaussian_embedder ==
  /\ pc = "idle"
  /\ \E shape \in FeatureShapes, is_training \in BOOLEAN, kwargs \in EmbedderKwargs,
        num_embedding_components \in 0..MaxComponents,
        embedding_size \in 1..MaxEmbeddingSize,
        num_embedding_samples \in (-1)..MaxSamples :
       /\ call' = Call("simple_gaussian_embedder", Input(shape), "",
                       num_embedding_components, embedding_size,
                       num_embedding_samples, is_training, EmptyDict, kwargs)
       /\ \E r \in {simple_gaussian_embedder(Context, Input(shape),
                        num_embedding_components, embedding_size,
                        num_embedding_samples, is_training, kwargs)} : Finish(r)
  /\ UNCHANGED base_net
  /\ EmbedIdle

call_create_embedder ==
  /\ pc = "idle"
  /\ \E embedding_type \in EmbeddingTypes,
        num_embedding_components \in 0..MaxComponents,
        embedding_size \in 1..MaxEmbeddingSize :
       LET r == create_embedder(embedding_type, num_embedding_components,
                                embedding_size)
       IN  /\ call' = Call("create_embedder", NoTensor, embedding_type,
                           num_embedding_components, embedding_size, 0, FALSE,
                           EmptyDict, EmptyKwargs)
           /\ embedder_fn' = r.fn
           /\ ret_status' = r.status
           /\ ret_msg' = r.msg
  /\ pc' = "done"
  /\ UNCHANGED <<store, graph, base_net, outputs, activations, pending,
                 sub_output_list, sub_activation_list>>

\* a rank check that only rejects ranks below 2
RankSupportedLoose(input_features_rank) == input_features_rank >= 2

\* input_features_rank not in [2, 3]
RankSupported(input_features_rank) == input_features_rank \in {2, 3}

\* embed, lines 361-364: the rank check
embed_begin ==
  /\ pc = "idle"
  /\ \E shape \in EmbedShapes, embedding_type \in EmbeddingTypes,
        num_embedding_components \in 0..MaxComponents, kwargs \in EmbedKwargs :
       call' = Call("embed", Input(shape), embedding_type,
                    num_embedding_components, MaxEmbeddingSize,
                    kwargs["num_embedding_samples"], kwargs["is_training"],
                    EmptyDict, kwargs)
  /\ IF RankSupported(Len(call'.input_features.shape))
       THEN /\ pc' = "embed_create"
            /\ UNCHANGED <<ret_status, ret_msg>>
       ELSE /\ pc' = "done"
            /\ ret_status' = "ValueError"
            /\ ret_msg' = "Only supports input feature tensors of rank 2 or 3"
  /\ UNCHANGED <<store, graph, base_net, outputs, activations>>
  /\ EmbedIdle

\* embed, lines 366-367
embed_create ==
  /\ pc = "embed_create"
  /\ LET r == create_embedder(call.embedding_type, call.num_embedding_components,
                              call.embedding_size)
     IN  /\ embedder_fn' = r.fn
         /\ IF r.status = "ok"
              THEN /\ pc' = "embed_dispatch"
                   /\ UNCHANGED <<ret_status, ret_msg>>
              ELSE /\ pc' = "done"
                   /\ ret_status' = r.status
                   /\ ret_msg' = r.msg
  /\ UNCHANGED <<call, store, graph, base_net, outputs, activations, pending,
                 sub_output_list, sub_activation_list>>

\* embed, lines 369-370
embed_rank2 ==
  /\ pc = "embed_dispatch"
  /\ Len(call.input_features.shape) = 2
  /\ \E r \in {CallEmbedder(embedder_fn, Context, call.input_features,
                             call.kwargs)} : Finish(r)
  /\ UNCHANGED <<call, base_net>>
  /\ EmbedIdle

\* embed, lines 372-373: the instances to loop over
embed_unstack ==
  /\ pc = "embed_dispatch"
  /\ Len(call.input_features.shape) # 2
  /\ pending' = tf_unstack(call.input_features)
  /\ graph' = Append(graph, [op |-> "unstack", name |-> "unstack"])
  /\ pc' = "embed_loop"
  /\ UNCHANGED <<call, store, ret_status, ret_msg, base_net, outputs, activations,
                 embedder_fn, sub_output_list, sub_activation_list>>

\* embed, lines 374-376: one pass of the loop
embed_instance ==
  /\ pc = "embed_loop"
  /\ pending # <<>>
  /\ \E r \in {CallEmbedder(embedder_fn, Context, Head(pending), call.kwargs)} :
         /\ store' = r.ctx.vars
         /\ graph' = r.ctx.ops
         /\ IF r.status = "ok"
              THEN /\ sub_output_list' = Append(sub_output_list, r.outputs)
                   /\ sub_activation_list' = Append(sub_activation_list, r.activations)
                   /\ pending' = Tail(pending)
                   /\ UNCHANGED <<pc, ret_status>>
              ELSE /\ pc' = "done"
                   /\ ret_status' = r.status
                   /\ UNCHANGED <<pending, sub_output_list, sub_activation_list>>
  /\ UNCHANGED <<call, ret_msg, base_net, outputs, activations, embedder_fn>>

\* results stacked last instance first
InstanceOrderReversed(n) == [i \in 1..n |-> n + 1 - i]

\* the order in which the per-instance results are stacked
InstanceOrder(n) == [i \in 1..n |-> i]

\* {key: tf.stack([sub[key] for sub in sub_list], axis=1) for key in sub_list[0]}
StackByKey(sub_list) ==
  [k \in 1..Len(sub_list[1]) |->
     [key |-> sub_list[1][k].key,
      val |-> tf_stack([i \in 1..Len(sub_list) |->
                          DictGet(sub_list[InstanceOrder(Len(sub_list))[i]],
                                  sub_list[1][k].key)], 1)]]

\* embed, lines 378-389
embed_stack ==
  /\ pc = "embed_loop"
  /\ pending = <<>>
  /\ pc' = "done"
  /\ IF sub_output_list = <<>>
       THEN /\ ret_status' = "IndexError"
            /\ UNCHANGED <<outputs, activations, graph>>
       ELSE /\ ret_status' = "ok"
            /\ outputs' = StackByKey(sub_output_list)
            /\ activations' = StackByKey(sub_activation_list)
            /\ graph' = Append(graph, [op |-> "stack", name |-> "embed"])
  /\ UNCHANGED <<call, store, ret_msg, base_net, embedder_fn, pending,
                 sub_output_list, sub_activation_list>>

Next ==
  \/ call_simple_base
  \/ call_simple_model
  \/ call_simple_point_embedder
  \/ call_simple_gaussian_embedder
  \/ call_create_embedder
  \/ embed_begin
  \/ embed_create
  \/ embed_rank2
  \/ embed_unstack
  \/ embed_instance
  \/ embed_stack

Spec == Init /\ [][Next]_vars

-----------------------------------------------------------------------------
(* Reading the built graph *)

CountOps(g, op) == Cardinality({i \in 1..Len(g) : g[i].op = op})

OpNames(g, op) == {g[i].name : i \in {j \in 1..Len(g) : g[j].op = op}}

StoreNames == {v.name : v \in store}

\* some operation of the set lies on a path from the inputs to t
RECURSIVE HasOp(_, _)
HasOp(t, ops) == t.op \in ops \/ \E i \in 1..Len(t.args) : HasOp(t.args[i], ops)

RandomOps == {"dropout", "sample_gaussians"}

Rank == Len(call.input_features.shape)

LeadingDims == SubSeq(call.input_features.shape, 1, Rank - 1)

Finished(fn) == call.fn = fn /\ pc = "done"

DropoutRate == KwGet(call.kwargs, "dropout_rate", 0)

-----------------------------------------------------------------------------
(* C1 *)

RankMessage == "Only supports input feature tensors of rank 2 or 3"

\* C1: an embed call whose input rank is neither 2 nor 3 ends at once in a
\* ValueError carrying the rank message, whatever the embedding type: it
\* never reaches the create_embedder step, no embedder is bound, and the
\* variable store and the graph stay empty.
C1_RankErrorFirst ==
  (call.fn = "embed" /\ Rank \notin {2, 3}) =>
    /\ pc = "done"
    /\ ret_status = "ValueError"
    /\ ret_msg = RankMessage
    /\ embedder_fn = NoEmbedder
    /\ store = {}
    /\ graph = <<>>

C1_Witness ==
  /\ Finished("embed")
  /\ Rank = 4
  /\ call.embedding_type \notin {EMBEDDING_TYPE_POINT, EMBEDDING_TYPE_GAUSSIAN}
  /\ ret_status = "ValueError"

-----------------------------------------------------------------------------
(* C2 *)

\* C2: create_embedder binds simple_point_embedder for the point type and
\* simple_gaussian_embedder for the Gaussian type, each with exactly the
\* num_embedding_components and embedding_size it was given, raises
\* ValueError for every other type, and creates no variable.
C2_CreateEmbedder ==
  Finished("create_embedder") =>
    /\ call.embedding_type = "POINT" =>
         /\ ret_status = "ok"
         /\ embedder_fn = [fn |-> "simple_point_embedder",
                           num_embedding_components |-> call.num_embedding_components,
                           embedding_size |-> call.embedding_size]
    /\ call.embedding_type = "GAUSSIAN" =>
         /\ ret_status = "ok"
         /\ embedder_fn = [fn |-> "simple_gaussian_embedder",
                           num_embedding_components |-> call.num_embedding_components,
                           embedding_size |-> call.embedding_size]
    /\ call.embedding_type \notin {"POINT", "GAUSSIAN"} =>
         /\ ret_status = "ValueError"
         /\ embedder_fn = NoEmbedder
    /\ store = {}
    /\ graph = <<>>

C2_Witness ==
  /\ Finished("create_embedder")
  /\ call.embedding_type = "GAUSSIAN"
  /\ call.num_embedding_components = MaxComponents
  /\ embedder_fn.fn = "simple_gaussian_embedder"

-----------------------------------------------------------------------------
(* C3 *)

\* what the bound embedder returns for one rank-2 tensor
EmbedderOn(x) == CallEmbedder(embedder_fn, EmptyContext, x, call.kwargs)

\* d holds, under its keys, the tensors of the list subs stacked in list order
\* along axis 1
StackedInOrder(d, subs) ==
  \A k \in 1..Len(d) :
    LET t == d[k].val
    IN  /\ t.op = "stack"
        /\ t.attr = 1
        /\ Len(t.args) = Len(subs)
        /\ t.shape[2] = Len(subs)
        /\ \A i \in 1..Len(subs) : t.args[i] = DictGet(subs[i], d[k].key)

EmbedStacksInstances ==
  LET slices == tf_unstack(call.input_features)
      ref == EmbedderOn(Input(<<BatchSize, FeatureDim>>))
  IN  /\ ret_status = "ok"
      /\ DictKeys(outputs) = DictKeys(ref.outputs)
      /\ DictKeys(activations) = DictKeys(ref.activations)
      /\ Len(slices) = call.input_features.shape[2]
      /\ \E subs \in {[i \in 1..Len(slices) |-> EmbedderOn(slices[i])]} :
           /\ StackedInOrder(outputs, [i \in 1..Len(subs) |-> subs[i].outputs])
           /\ StackedInOrder(activations,
                             [i \in 1..Len(subs) |-> subs[i].activations])

Rank3EmbedDone ==
  /\ Finished("embed")
  /\ Rank = 3
  /\ embedder_fn # NoEmbedder
  /\ call.num_embedding_components >= 1

\* C3 as stated: for every rank-3 input with num_instances >= 0, embed
\* returns the per-instance embedder results stacked in instance order along
\* axis 1, under the embedder's own key sets.
C3_AnyInstanceCount == Rank3EmbedDone => EmbedStacksInstances

\* C3 amended: the same for every rank-3 input with num_instances >= 1; with
\* num_instances = 0 embed raises IndexError and returns nothing.
C3_AtLeastOneInstance ==
  Rank3EmbedDone =>
    IF call.input_features.shape[2] >= 1
      THEN EmbedStacksInstances
      ELSE ret_status = "IndexError" /\ outputs = EmptyDict /\ store = {}

C3_Witness ==
  /\ Rank3EmbedDone
  /\ call.input_features.shape[2] = MaxInstances
  /\ call.embedding_type = EMBEDDING_TYPE_GAUSSIAN
  /\ ret_status = "ok"
  /\ DictGet(outputs, KEY_EMBEDDING_MEANS).shape[2] = MaxInstances

-----------------------------------------------------------------------------
(* C4 *)

\* C4: the outputs simple_gaussian_embedder returns have the keys means and
\* stddevs, and the key samples exactly when num_embedding_samples > 0; with
\* num_embedding_samples <= 0 no sample_gaussians operation is built; means
\* and stddevs have shape [..., components, size] and samples have shape
\* [..., components, samples, size].
C4_GaussianOutputs ==
  (Finished("simple_gaussian_embedder") /\ ret_status = "ok") =>
    LET draws == call.num_embedding_samples > 0
        cs == <<call.num_embedding_components, call.embedding_size>>
    IN  /\ DictKeys(outputs) =
             {KEY_EMBEDDING_MEANS, KEY_EMBEDDING_STDDEVS}
               \cup (IF draws THEN {KEY_EMBEDDING_SAMPLES} ELSE {})
        /\ CountOps(graph, "sample_gaussians") =
             (IF draws THEN call.num_embedding_components ELSE 0)
        /\ DictGet(outputs, KEY_EMBEDDING_MEANS).shape = LeadingDims \o cs
        /\ DictGet(outputs, KEY_EMBEDDING_STDDEVS).shape = LeadingDims \o cs
        /\ draws =>
             DictGet(outputs, KEY_EMBEDDING_SAMPLES).shape =
               LeadingDims \o <<call.num_embedding_components,
                                call.num_embedding_samples, call.embedding_size>>

C4_Witness ==
  /\ Finished("simple_gaussian_embedder")
  /\ ret_status = "ok"
  /\ call.num_embedding_samples = 0
  /\ call.num_embedding_components = MaxComponents
  /\ Rank = 3

-----------------------------------------------------------------------------
(* C5 *)

\* the name scope of the output head of component c for a key
HeadScope(key, c) == "SimpleModel/OutputLogits/C" \o FormatInt(c) \o "/" \o key

\* t is the output of the linear layer built under the scope
IsHead(t, scope) == t.op = "add" /\ t.name = scope /\ t.args[1].op = "matmul"

ComponentsKeepIndex ==
  \A c \in 0..(call.num_embedding_components - 1) :
    LET means == DictGet(outputs, KEY_EMBEDDING_MEANS)
    IN  /\ means.attr = -2
        /\ IsHead(means.args[c + 1], HeadScope(KEY_EMBEDDING_MEANS, c))
        /\ KEY_EMBEDDING_STDDEVS \in DictKeys(outputs) =>
             LET stddevs == DictGet(outputs, KEY_EMBEDDING_STDDEVS)
             IN  /\ stddevs.attr = -2
                 /\ stddevs.args[c + 1].op = "add_one"
                 /\ stddevs.args[c + 1].args[1].op = "elu"
                 /\ IsHead(stddevs.args[c + 1].args[1].args[1],
                           HeadScope(KEY_EMBEDDING_STDDEVS, c))
        /\ KEY_EMBEDDING_SAMPLES \in DictKeys(outputs) =>
             LET samples == DictGet(outputs, KEY_EMBEDDING_SAMPLES)
             IN  /\ samples.attr = -3
                 /\ samples.args[c + 1].op = "sample_gaussians"
                 /\ samples.args[c + 1].args =
                      <<means.args[c + 1],
                        DictGet(outputs, KEY_EMBEDDING_STDDEVS).args[c + 1]>>

\* C5: in the outputs of both embedders the slice at index c of the component
\* axis (-2 for means and stddevs, -3 for samples) is the tensor of the output
\* head named 'C<c>/' + key, the samples of component c are drawn from the
\* means and the post-activation stddevs of component c, and the point
\* embedder returns the single key means of shape [..., components, size].
C5_ComponentIndex ==
  /\ (Finished("simple_gaussian_embedder") /\ ret_status = "ok") =>
       ComponentsKeepIndex
  /\ (Finished("simple_point_embedder") /\ ret_status = "ok") =>
       /\ ComponentsKeepIndex
       /\ DictKeys(outputs) = {KEY_EMBEDDING_MEANS}
       /\ DictGet(outputs, KEY_EMBEDDING_MEANS).shape =
            LeadingDims \o <<call.num_embedding_components, call.embedding_size>>

C5_Witness ==
  /\ Finished("simple_gaussian_embedder")
  /\ ret_status = "ok"
  /\ call.num_embedding_components = MaxComponents
  /\ call.num_embedding_samples > 0
  /\ DictGet(outputs, KEY_EMBEDDING_SAMPLES).args[MaxComponents].op = "sample_gaussians"

-----------------------------------------------------------------------------
(* C6 *)

PointReturned == Finished("simple_point_embedder") /\ ret_status = "ok"

\* C6 as stated: for every configuration, training with any dropout_rate
\* included, no random operation lies on the path from the input to the point
\* embedder's means.
C6_NeverRandom ==
  PointReturned => ~HasOp(DictGet(outputs, KEY_EMBEDDING_MEANS), RandomOps)

\* C6 amended: a random operation lies on the path from the input to the
\* point embedder's means exactly when is_training is true and
\* dropout_rate > 0 (the dropout of the fully connected layers); in every
\* other configuration the means are a deterministic function of the input
\* and the variables.
C6_RandomOnlyByDropout ==
  PointReturned =>
    (HasOp(DictGet(outputs, KEY_EMBEDDING_MEANS), RandomOps)
       <=> (call.is_training /\ DropoutRate > 0))

C6_Witness ==
  /\ PointReturned
  /\ ~call.is_training
  /\ DropoutRate > 0
  /\ ~HasOp(DictGet(outputs, KEY_EMBEDDING_MEANS), RandomOps)

-----------------------------------------------------------------------------
(* C7 *)

ModelName == KwGet(call.kwargs, "name", "SimpleModel")

NumBottleneckNodes == KwGet(call.kwargs, "num_bottleneck_nodes", 0)

\* the input of the linear layer whose output (reshaped or not) is t
RECURSIVE LinearInput(_)
LinearInput(t) ==
  IF t.op = "reshape" THEN LinearInput(t.args[1]) ELSE t.args[1].args[1]

\* C7: simple_model builds the bottleneck layer exactly when
\* num_bottleneck_nodes > 0; the activations always hold 'base_activations',
\* the output of simple_base, and hold 'bottleneck_activations' exactly when
\* the bottleneck was built; every output head reads the bottleneck output
\* when it exists and the base activations otherwise; and one head is built
\* per entry of output_sizes, so the output keys are the keys of output_sizes.
C7_Bottleneck ==
  Finished("simple_model") =>
    LET has == NumBottleneckNodes > 0
        scope == ModelName \o "/BottleneckLogits"
        base == DictGet(activations, "base_activations")
    IN  /\ (scope \in OpNames(graph, "matmul")) <=> has
        /\ ((scope \o "/weight") \in StoreNames) <=> has
        /\ DictKeys(activations) =
             {"base_activations"} \cup (IF has THEN {"bottleneck_activations"} ELSE {})
        /\ base = simple_base(EmptyContext, call.input_features, call.is_training,
                              ModelName,
                              Without(call.kwargs, {"name", "num_bottleneck_nodes"})).t
        /\ has => /\ DictGet(activations, "bottleneck_activations").name = scope
                  /\ LinearInput(DictGet(activations, "bottleneck_activations")) = base
                  /\ LastDim(DictGet(activations, "bottleneck_activations").shape)
                       = NumBottleneckNodes
        /\ DictKeys(outputs) = DictKeys(call.output_sizes)
        /\ Len(outputs) = Len(call.output_sizes)
        /\ CountOps(graph, "matmul") =
             CountOps(graph, "relu") + (IF has THEN 1 ELSE 0) + Len(call.output_sizes)
        /\ \A k \in 1..Len(outputs) :
             LinearInput(outputs[k].val) =
               (IF has THEN DictGet(activations, "bottleneck_activations") ELSE base)

C7_Witness ==
  /\ Finished("simple_model")
  /\ NumBottleneckNodes > 0
  /\ Len(call.output_sizes) = 2
  /\ "bottleneck_activations" \in DictKeys(activations)

-----------------------------------------------------------------------------
(* C8 *)

\* C8: in the graphs simple_base and simple_model build, every fully
\* connected layer gets a dropout operation when is_training is true and
\* dropout_rate > 0 and none does otherwise, no other layer ever gets one,
\* every linear layer (bottleneck and output heads included) clips its weights
\* when weight_max_norm > 0 and none does otherwise; so with neither keyword
\* supplied the graph has no dropout and no clip operation.
C8_DropoutAndClipOff ==
  (Finished("simple_base") \/ Finished("simple_model")) =>
    LET drops == call.is_training /\ DropoutRate > 0
        clips == KwGet(call.kwargs, "weight_max_norm", 0) > 0
    IN  /\ CountOps(graph, "dropout") =
             (IF drops THEN CountOps(graph, "relu") ELSE 0)
        /\ CountOps(graph, "clip_by_norm") =
             (IF clips THEN CountOps(graph, "matmul") ELSE 0)
        /\ {"dropout_rate", "weight_max_norm"} \cap DOMAIN call.kwargs = {} =>
             /\ CountOps(graph, "dropout") = 0
             /\ CountOps(graph, "clip_by_norm") = 0
             /\ Finished("simple_base") =>
                  ~HasOp(base_net, {"dropout", "clip_by_norm"})
             /\ \A k \in 1..Len(outputs) :
                  ~HasOp(outputs[k].val, {"dropout", "clip_by_norm"})

C8_Witness ==
  /\ Finished("simple_model")
  /\ call.is_training
  /\ {"dropout_rate", "weight_max_norm"} \cap DOMAIN call.kwargs = {}
  /\ NumBottleneckNodes > 0
  /\ Len(outputs) = 2

-----------------------------------------------------------------------------
(* C9 *)

NumFcBlocks == KwGet(call.kwargs, "num_fc_blocks", 2)

NumFcsPerBlock == KwGet(call.kwargs, "num_fcs_per_block", 2)

HiddenShape ==
  ReplaceLast(call.input_features.shape,
              KwGet(call.kwargs, "num_hidden_nodes", 1024))

\* the linear layer under the batch norm, relu and dropout of a fully
\* connected layer
RECURSIVE LinearOf(_)
LinearOf(t) ==
  IF t.op \in {"dropout", "relu", "batch_norm"} THEN LinearOf(t.args[1]) ELSE t

FcInput(t) == LinearOf(t).args[1].args[1]

\* t is x passed through the fully connected layers FC_0 .. FC_(j-1) of scope
RECURSIVE FcChain(_, _, _, _)
FcChain(t, x, scope, j) ==
  IF j = 0 THEN t = x
  ELSE /\ t.op \in {"relu", "dropout"}
       /\ LinearOf(t).op = "add"
       /\ LinearOf(t).name = scope \o "/FC_" \o FormatInt(j - 1) \o "/Linear"
       /\ FcChain(FcInput(t), x, scope, j - 1)

\* t is the input layer's output passed through blocks 0 .. i-1, each one its
\* input through the block's layers plus its input
RECURSIVE BlockChain(_, _)
BlockChain(t, i) ==
  IF i = 0
    THEN /\ t.op \in {"relu", "dropout"}
         /\ LinearOf(t).op = "add"
         /\ LinearOf(t).name = "SimpleModel/InputFC/Linear"
         /\ FcInput(t) = call.input_features
    ELSE /\ t.op = "add"
         /\ t.name = "SimpleModel/FullyConnectedBlock_" \o FormatInt(i - 1)
         /\ FcChain(t.args[1], t.args[2], t.name, NumFcsPerBlock)
         /\ t.args[1].shape = t.args[2].shape
         /\ BlockChain(t.args[2], i - 1)

\* every tensor computed from the input has the hidden shape
RECURSIVE AllHidden(_)
AllHidden(t) ==
  t.op \in {"input", "variable", "clip_by_norm"}
    \/ (t.shape = HiddenShape /\ \A i \in 1..Len(t.args) : AllHidden(t.args[i]))

\* C9: simple_base builds the input layer and then num_fc_blocks residual
\* blocks in order, each block its input through num_fcs_per_block fully
\* connected layers in sequence plus its input; it builds
\* 1 + num_fc_blocks * num_fcs_per_block linear layers; every tensor after
\* the input layer has last dimension num_hidden_nodes, so both operands of
\* every residual addition have one shape; a block without layers returns its
\* input added to itself, and without blocks the result is the input layer's
\* output.
C9_ResidualBlocks ==
  Finished("simple_base") =>
    /\ CountOps(graph, "matmul") = 1 + NumFcBlocks * NumFcsPerBlock
    /\ CountOps(graph, "relu") = 1 + NumFcBlocks * NumFcsPerBlock
    /\ CountOps(graph, "add") = CountOps(graph, "matmul") + NumFcBlocks
    /\ BlockChain(base_net, NumFcBlocks)
    /\ AllHidden(base_net)
    /\ (NumFcsPerBlock = 0 /\ NumFcBlocks > 0) =>
         base_net.args[1] = base_net.args[2]
    /\ NumFcBlocks = 0 => LinearOf(base_net).name = "SimpleModel/InputFC/Linear"

C9_Witness ==
  /\ Finished("simple_base")
  /\ NumFcBlocks = MaxBlocks
  /\ NumFcsPerBlock = MaxFcs
  /\ base_net.op = "add"
  /\ base_net.args[2].op = "add"

-----------------------------------------------------------------------------
(* C10 *)

\* one build of a model: every linear layer under a name of its own, holding
\* its own weight and bias
LayersOwnTheirVariables ==
  /\ Cardinality(OpNames(graph, "matmul")) = CountOps(graph, "matmul")
  /\ Cardinality(OpNames(graph, "batch_norm")) = CountOps(graph, "batch_norm")
  /\ \A n \in OpNames(graph, "matmul") :
       {n \o "/weight", n \o "/bias"} \subseteq StoreNames
  /\ Cardinality(StoreNames) =
       2 * CountOps(graph, "matmul") + 4 * CountOps(graph, "batch_norm")

OneBuild ==
  /\ pc = "done"
  /\ \/ call.fn \in {"simple_base", "simple_model", "simple_point_embedder",
                     "simple_gaussian_embedder"}
     \/ call.fn = "embed" /\ Rank = 2 /\ embedder_fn # NoEmbedder

\* the store after embed on a rank-3 input has the names of the store after
\* embed on a rank-2 input with the same arguments
SameNamesAsRank2 ==
  StoreNames = {v.name : v \in EmbedderOn(Input(<<BatchSize, FeatureDim>>)).ctx.vars}

\* C10: within one build every linear layer has a variable scope name of its
\* own and so its own weight and bias; in embed on a rank-3 input the embedder
\* calls after the first create no variable; hence after embed on a rank-3
\* input with num_instances >= 1 the variable names in the store are those
\* after embed on a rank-2 input with the same arguments.
C10_VariableSharing ==
  /\ [](OneBuild => LayersOwnTheirVariables)
  /\ []((Finished("embed") /\ Rank = 3 /\ embedder_fn # NoEmbedder
           /\ call.input_features.shape[2] >= 1) => SameNamesAsRank2)
  /\ [][(pc = "embed_loop" /\ sub_output_list # <<>>) => store' = store]_vars

C10_Witness ==
  /\ Finished("embed")
  /\ Rank = 3
  /\ call.input_features.shape[2] = MaxInstances
  /\ ret_status = "ok"
  /\ Len(sub_output_list) = MaxInstances
  /\ store # {}

====
